---- MODULE Spec2Model ----
(***************************************************************************)
(* A model of substance's PropertyAnnotation (model/PropertyAnnotation.js) *)
(* and FindAndReplaceCommand (packages/find-and-replace).                  *)
(*                                                                         *)
(* One annotation node lives in a document that holds two text properties. *)
(* The transaction handle tx records every tx.set; the transaction applies *)
(* the recorded mutations one at a time, oldest first.                     *)
(***************************************************************************)
EXTENDS Integers, Sequences, FiniteSets, TLC

(* ---------------------------------------------------------------- bounds *)

\* Offsets (of the annotation and of selections) range over 0..MaxOff.
MaxOff == 2

\* The find-and-replace manager's state ranges over 0..MaxManagerState.
MaxManagerState == 4

Offsets == 0..MaxOff

(* ------------------------------------------------------ document fixture *)

\* The id of the annotation node (DocumentNode's this.id).
AnnoId == "s1"

P1Content == <<"p1", "content">>
P1Title == <<"p1", "title">>
P1Node == <<"p1">>

\* Paths an annotation or a selection may carry. P1Node addresses a node,
\* not a text property: doc.get(P1Node) is no string.
Paths == {P1Content, P1Title, P1Node}

\* The text properties of the document as created.
InitialText == (P1Content :> <<"a", "b">>) @@ (P1Title :> <<"x">>)

SelectionKinds == {"property", "container", "null"}

\* A selection as the annotation sees it: its kind and the path and offsets
\* its accessors report.
Selections ==
  [kind : SelectionKinds, path : Paths, startOffset : Offsets, endOffset : Offsets]

ManagerNames == {"find-and-replace", "spell-check"}

ManagerStates == 0..MaxManagerState

NoSelection == [kind |-> "none"]

VARIABLES
  path,         \* this.path
  startOffset,  \* this.startOffset
  endOffset,    \* this.endOffset
  attached,     \* whether this.getDocument() returns a document
  text,         \* the document's text properties, by path
  pending,      \* mutations recorded through tx.set and not yet applied
  managers,     \* the editor session's managers: name -> command state
  result        \* the last call: operation, arguments, outcome, value returned

vars == <<path, startOffset, endOffset, attached, text, pending, managers, result>>

annoVars == <<path, startOffset, endOffset>>

(* --------------------------------------------------------------- helpers *)

\* util/isArrayEqual: same length and equal element by element.
isArrayEqual(arr1, arr2) ==
  /\ Len(arr1) = Len(arr2)
  /\ \A i \in 1..Len(arr1) : arr1[i] = arr2[i]

\* Selection.isPropertySelection()
isPropertySelection(sel) == sel.kind = "property"

\* Selection.isNull()
isNull(sel) == sel.kind = "null"

\* sel.start and sel.end: the coordinates of a selection.
selStart(sel) == [path |-> sel.path, offset |-> sel.startOffset]

selEnd(sel) == [path |-> sel.path, offset |-> sel.endOffset]

Min(a, b) == IF a <= b THEN a ELSE b

Max(a, b) == IF a >= b THEN a ELSE b

\* String.prototype.substring(start, end): both indices are clamped to
\* 0..length and swapped when start > end.
substring(str, start, end) ==
  LET s == Min(Max(start, 0), Len(str))
      e == Min(Max(end, 0), Len(str))
  IN  SubSeq(str, Min(s, e) + 1, Max(s, e))

\* get startPath() / get endPath()
startPath == path

endPath == path

\* tx.set(address, value): the mutation the transaction records.
txSet(address, value) ==
  [node |-> address[1], field |-> address[2], value |-> value]

(* ------------------------------------------------------------------ Init *)

Init ==
  /\ path \in Paths
  /\ startOffset \in Offsets
  /\ endOffset \in Offsets
  /\ attached \in BOOLEAN
  /\ text = InitialText
  /\ pending = <<>>
  /\ managers = [n \in ManagerNames |-> 0]
  /\ result = [op |-> "new"]

(* ------------------------------------------------------------ updateRange *)

\* updateRange with the endOffset comparison lost: endOffset is always set.
updateRangeOps_AlwaysEnd(sel) ==
  (IF ~isArrayEqual(startPath, selStart(sel).path)
     THEN <<txSet(<<AnnoId, "path">>, selStart(sel).path)>> ELSE <<>>)
  \o
  (IF startOffset # selStart(sel).offset
     THEN <<txSet(<<AnnoId, "startOffset">>, selStart(sel).offset)>> ELSE <<>>)
  \o
  <<txSet(<<AnnoId, "endOffset">>, selEnd(sel).offset)>>

\* updateRange writing sel.start.offset to endOffset.
updateRangeOps_EndFromStart(sel) ==
  (IF ~isArrayEqual(startPath, selStart(sel).path)
     THEN <<txSet(<<AnnoId, "path">>, selStart(sel).path)>> ELSE <<>>)
  \o
  (IF startOffset # selStart(sel).offset
     THEN <<txSet(<<AnnoId, "startOffset">>, selStart(sel).offset)>> ELSE <<>>)
  \o
  (IF endOffset # selEnd(sel).offset
     THEN <<txSet(<<AnnoId, "endOffset">>, selStart(sel).offset)>> ELSE <<>>)

\* updateRange without the path update.
updateRangeOps_NoPath(sel) ==
  (IF startOffset # selStart(sel).offset
     THEN <<txSet(<<AnnoId, "startOffset">>, selStart(sel).offset)>> ELSE <<>>)
  \o
  (IF endOffset # selEnd(sel).offset
     THEN <<txSet(<<AnnoId, "endOffset">>, selEnd(sel).offset)>> ELSE <<>>)

\* updateRange addressing the path update to this.path instead of
\* [this.id, 'path'].
updateRangeOps_SetAtPath(sel) ==
  (IF ~isArrayEqual(startPath, selStart(sel).path)
     THEN <<txSet(path \o <<"path">>, selStart(sel).path)>> ELSE <<>>)
  \o
  (IF startOffset # selStart(sel).offset
     THEN <<txSet(<<AnnoId, "startOffset">>, selStart(sel).offset)>> ELSE <<>>)
  \o
  (IF endOffset # selEnd(sel).offset
     THEN <<txSet(<<AnnoId, "endOffset">>, selEnd(sel).offset)>> ELSE <<>>)

\* The tx.set calls of updateRange for a property selection, in order.
updateRangeOps(sel) ==
  (IF ~isArrayEqual(startPath, selStart(sel).path)
     THEN <<txSet(<<AnnoId, "path">>, selStart(sel).path)>> ELSE <<>>)
  \o
  (IF startOffset # selStart(sel).offset
     THEN <<txSet(<<AnnoId, "startOffset">>, selStart(sel).offset)>> ELSE <<>>)
  \o
  (IF endOffset # selEnd(sel).offset
     THEN <<txSet(<<AnnoId, "endOffset">>, selEnd(sel).offset)>> ELSE <<>>)

\* updateRange without the isPropertySelection check.
UpdateRange_NoKindCheck(sel) ==
  /\ pending = <<>>
  /\ pending' = updateRangeOps(sel)
  /\ result' = [op |-> "updateRange", sel |-> sel, outcome |-> "ok",
                            mutations |-> updateRangeOps(sel)]
  /\ UNCHANGED <<path, startOffset, endOffset, attached, text, managers>>

\* updateRange(tx, sel). Execution is single-threaded and a transaction
\* applies what it recorded before the next call is made, so a call starts
\* with no mutation pending.
UpdateRange(sel) ==
  /\ pending = <<>>
  /\ IF ~isPropertySelection(sel)
       THEN /\ result' = [op |-> "updateRange", sel |-> sel, outcome |-> "error",
                            mutations |-> <<>>]
            /\ pending' = pending
       ELSE /\ pending' = updateRangeOps(sel)
            /\ result' = [op |-> "updateRange", sel |-> sel, outcome |-> "ok",
                            mutations |-> updateRangeOps(sel)]
  /\ UNCHANGED <<path, startOffset, endOffset, attached, text, managers>>

\* The transaction applies the oldest recorded mutation to the node and
\* field it addresses.
Apply ==
  /\ pending # <<>>
  /\ LET m == Head(pending) IN
       /\ path' = IF m.node = AnnoId /\ m.field = "path" THEN m.value ELSE path
       /\ startOffset' =
            IF m.node = AnnoId /\ m.field = "startOffset" THEN m.value ELSE startOffset
       /\ endOffset' =
            IF m.node = AnnoId /\ m.field = "endOffset" THEN m.value ELSE endOffset
       /\ text' = IF <<m.node, m.field>> \in DOMAIN text
                    THEN [text EXCEPT ![<<m.node, m.field>>] = m.value]
                    ELSE text
  /\ pending' = Tail(pending)
  /\ UNCHANGED <<attached, managers, result>>

(* ---------------------------------------------------------------- getText *)

\* getText with substr(start, length) in place of substring(start, end).
getText_Substr ==
  IF ~attached
    THEN [outcome |-> "ok", value |-> <<>>]
    ELSE IF path \in DOMAIN text
      THEN [outcome |-> "ok",
            value |-> SubSeq(text[path], Min(startOffset, Len(text[path])) + 1,
                             Min(startOffset + endOffset, Len(text[path])))]
      ELSE [outcome |-> "error", value |-> <<>>]

\* getText without the check for a detached annotation: doc is null and
\* doc.get raises a TypeError.
getText_NoDetachedCheck ==
  IF attached /\ path \in DOMAIN text
    THEN [outcome |-> "ok", value |-> substring(text[path], startOffset, endOffset)]
    ELSE [outcome |-> "error", value |-> <<>>]

\* getText(): the outcome and the returned string. A detached annotation
\* warns and returns "". doc.get(path) of a path that is no text property
\* is no string, and calling substring on it raises a TypeError.
getText ==
  IF ~attached
    THEN [outcome |-> "ok", value |-> <<>>]
    ELSE IF path \in DOMAIN text
      THEN [outcome |-> "ok", value |-> substring(text[path], startOffset, endOffset)]
      ELSE [outcome |-> "error", value |-> <<>>]

GetText ==
  /\ result' = [op |-> "getText", outcome |-> getText.outcome, string |-> getText.value]
  /\ UNCHANGED <<path, startOffset, endOffset, attached, text, pending, managers>>

(* ----------------------------------------------------------- getSelection *)

\* doc.createSelection(descriptor)
createSelection(type, p, so, eo) ==
  [kind |-> type, path |-> p, startOffset |-> so, endOffset |-> eo]

\* getSelection(): this.getDocument() is null for a detached annotation, and
\* calling createSelection on it raises a TypeError.
getSelection ==
  IF ~attached
    THEN [outcome |-> "error", value |-> NoSelection]
    ELSE [outcome |-> "ok",
          value |-> createSelection("property", path, startOffset, endOffset)]

GetSelection ==
  /\ result' = [op |-> "getSelection", outcome |-> getSelection.outcome,
                selection |-> getSelection.value]
  /\ UNCHANGED <<path, startOffset, endOffset, attached, text, pending, managers>>

(* ------------------------------------------------------------- isInsideOf *)

\* isInsideOf whose strict branch admits a touching start.
isInsideOf_StrictTouchingStart(sel, strict) ==
  IF isNull(sel) THEN FALSE
  ELSE IF strict
    THEN /\ isArrayEqual(path, sel.path)
         /\ startOffset >= sel.startOffset
         /\ endOffset < sel.endOffset
    ELSE /\ isArrayEqual(path, sel.path)
         /\ startOffset >= sel.startOffset
         /\ endOffset <= sel.endOffset

\* isInsideOf without the check for a null selection.
isInsideOf_NoNullCheck(sel, strict) ==
  IF strict
    THEN /\ isArrayEqual(path, sel.path)
         /\ startOffset > sel.startOffset
         /\ endOffset < sel.endOffset
    ELSE /\ isArrayEqual(path, sel.path)
         /\ startOffset >= sel.startOffset
         /\ endOffset <= sel.endOffset

isInsideOf(sel, strict) ==
  IF isNull(sel) THEN FALSE
  ELSE IF strict
    THEN /\ isArrayEqual(path, sel.path)
         /\ startOffset > sel.startOffset
         /\ endOffset < sel.endOffset
    ELSE /\ isArrayEqual(path, sel.path)
         /\ startOffset >= sel.startOffset
         /\ endOffset <= sel.endOffset

IsInsideOf(sel, strict) ==
  /\ result' = [op |-> "isInsideOf", sel |-> sel, strict |-> strict, outcome |-> "ok",
                boolean |-> isInsideOf(sel, strict)]
  /\ UNCHANGED <<path, startOffset, endOffset, attached, text, pending, managers>>

(* ------------------------------------------------------ constant queries *)

canSplit == TRUE

CanSplit ==
  /\ result' = [op |-> "canSplit", outcome |-> "ok", boolean |-> canSplit]
  /\ UNCHANGED <<path, startOffset, endOffset, attached, text, pending, managers>>

isAnchor == FALSE

IsAnchor ==
  /\ result' = [op |-> "isAnchor", outcome |-> "ok", boolean |-> isAnchor]
  /\ UNCHANGED <<path, startOffset, endOffset, attached, text, pending, managers>>

StartPath ==
  /\ result' = [op |-> "startPath", outcome |-> "ok", array |-> startPath]
  /\ UNCHANGED <<path, startOffset, endOffset, attached, text, pending, managers>>

EndPath ==
  /\ result' = [op |-> "endPath", outcome |-> "ok", array |-> endPath]
  /\ UNCHANGED <<path, startOffset, endOffset, attached, text, pending, managers>>

(* -------------------------------------------------- FindAndReplaceCommand *)

\* editorSession.getManager(name)
getManager(editorSession, name) == editorSession[name]

\* getCommandState asking another manager of the session.
getCommandState_OtherManager(editorSession) == getManager(editorSession, "spell-check")

\* getCommandState({editorSession}): the state the manager named
\* 'find-and-replace' reports (manager.getCommandState()).
getCommandState(editorSession) == getManager(editorSession, "find-and-replace")

GetCommandState ==
  /\ result' = [op |-> "getCommandState", outcome |-> "ok",
                state |-> getCommandState(managers)]
  /\ UNCHANGED <<path, startOffset, endOffset, attached, text, pending, managers>>

\* execute(): does nothing.
Execute ==
  /\ result' = [op |-> "execute", outcome |-> "ok"]
  /\ UNCHANGED <<path, startOffset, endOffset, attached, text, pending, managers>>

\* A manager of the session moves to another state (a search is started,
\* a match is found, ...).
ManagerChange(name, state) ==
  /\ managers[name] # state
  /\ managers' = [managers EXCEPT ![name] = state]
  /\ UNCHANGED <<path, startOffset, endOffset, attached, text, pending, result>>

(* --------------------------------------------------------- specifications *)

\* The selections isInsideOf is probed with next to the range updates.
ProbeSelections ==
  {sel \in Selections : sel.startOffset = 0 /\ sel.endOffset = MaxOff /\ sel.path # P1Node}

\* The annotation and its transaction.
Next ==
  \/ \E sel \in Selections : UpdateRange(sel)
  \/ Apply
  \/ GetText
  \/ GetSelection
  \/ \E sel \in ProbeSelections, strict \in BOOLEAN : IsInsideOf(sel, strict)
  \/ CanSplit
  \/ IsAnchor
  \/ StartPath
  \/ EndPath

Spec == Init /\ [][Next]_vars

\* The offsets lie inside the text at path.
RangeInText(p, so, eo) ==
  /\ p \in DOMAIN text
  /\ 0 <= so /\ so <= eo /\ eo <= Len(text[p])

\* Selections updateRange accepts whose range lies inside the text at
\* their path, and the selections it rejects.
ValidSelections ==
  {sel \in Selections :
     isPropertySelection(sel) => RangeInText(sel.path, sel.startOffset, sel.endOffset)}

InitValid ==
  /\ Init
  /\ RangeInText(path, startOffset, endOffset)

NextValid ==
  \/ \E sel \in ValidSelections : UpdateRange(sel)
  \/ Apply

\* Range updates with selections inside the text, from an annotation inside it.
SpecValid == InitValid /\ [][NextValid]_vars

InitInside ==
  /\ Init
  /\ attached

NextInside ==
  \E sel \in Selections, strict \in BOOLEAN : IsInsideOf(sel, strict)

\* isInsideOf over every annotation, selection and strictness.
SpecInside == InitInside /\ [][NextInside]_vars

InitCommand ==
  /\ path = P1Content
  /\ startOffset = 0
  /\ endOffset = 0
  /\ attached = TRUE
  /\ text = InitialText
  /\ pending = <<>>
  /\ managers \in [ManagerNames -> ManagerStates]
  /\ result = [op |-> "new"]

NextCommand ==
  \/ GetCommandState
  \/ Execute
  \/ \E name \in ManagerNames, state \in ManagerStates : ManagerChange(name, state)

\* The command over a session whose managers change state.
SpecCommand == InitCommand /\ [][NextCommand]_vars

(* ------------------------------------------------------------- properties *)

\* The step is a call updateRange(tx, sel), sel being the selection the
\* call's record names.
UpdateRangeStep ==
  /\ result'.op = "updateRange"
  /\ UpdateRange(result'.sel)

\* The step is a call isInsideOf(sel, strict).
IsInsideOfStep ==
  /\ result'.op = "isInsideOf"
  /\ IsInsideOf(result'.sel, result'.strict)

\* The step is a call getText().
GetTextStep ==
  /\ result'.op = "getText"
  /\ GetText

\* The step is a call getSelection().
GetSelectionStep ==
  /\ result'.op = "getSelection"
  /\ GetSelection

\* The step is a call of canSplit(), isAnchor(), startPath or endPath.
ConstantQueryStep ==
  \/ result'.op = "canSplit" /\ CanSplit
  \/ result'.op = "isAnchor" /\ IsAnchor
  \/ result'.op = "startPath" /\ StartPath
  \/ result'.op = "endPath" /\ EndPath

\* The step is a call getCommandState({editorSession}).
GetCommandStateStep ==
  /\ result'.op = "getCommandState"
  /\ GetCommandState

\* The step is a call execute().
ExecuteStep ==
  /\ result'.op = "execute"
  /\ Execute

\* The fields a sequence of mutations sets.
EmittedFields(ops) == {ops[i].field : i \in DOMAIN ops}

AnnotationFields == {"path", "startOffset", "endOffset"}

\* C1: updateRange with a property selection emits a tx.set for path,
\* startOffset or endOffset exactly when the annotation's current value of
\* that field differs from the selection's, one tx.set per such field, so a
\* selection that differs in endOffset alone yields one mutation and an
\* identical selection yields none.
C1_OneMutationPerDifferingField ==
  [][(UpdateRangeStep /\ isPropertySelection(result'.sel)) =>
       LET sel == result'.sel
           ops == pending'
       IN  /\ result'.mutations = ops
           /\ EmittedFields(ops) \subseteq AnnotationFields
           /\ ("path" \in EmittedFields(ops)) <=> (path # sel.path)
           /\ ("startOffset" \in EmittedFields(ops)) <=> (startOffset # sel.startOffset)
           /\ ("endOffset" \in EmittedFields(ops)) <=> (endOffset # sel.endOffset)
           /\ Len(ops) = Cardinality(EmittedFields(ops))]_vars

\* updateRange has just emitted its only mutation, on endOffset, for a
\* selection that differs from the annotation in endOffset alone.
C1_OnlyEndOffsetDiffers ==
  /\ result.op = "updateRange"
  /\ result.outcome = "ok"
  /\ pending = result.mutations
  /\ Len(pending) = 1
  /\ pending[1].field = "endOffset"
  /\ path = result.sel.path
  /\ startOffset = result.sel.startOffset
  /\ endOffset # result.sel.endOffset

\* C2: updateRange with a selection that is no property selection ends in
\* an error, emits no tx.set and leaves path, startOffset and endOffset
\* unchanged.
C2_NonPropertySelectionRejected ==
  [][(UpdateRangeStep /\ ~isPropertySelection(result'.sel)) =>
       /\ result'.outcome = "error"
       /\ result'.mutations = <<>>
       /\ pending' = <<>>
       /\ UNCHANGED annoVars]_vars

\* updateRange has rejected a container selection whose path and offsets
\* differ from the annotation's.
C2_ContainerSelectionRejected ==
  /\ result.op = "updateRange"
  /\ result.outcome = "error"
  /\ result.sel.kind = "container"
  /\ result.sel.path # path
  /\ result.sel.startOffset # startOffset
  /\ result.sel.endOffset # endOffset

\* C3: once the mutations updateRange emitted for a property selection are
\* applied, the annotation's path, startOffset and endOffset equal the
\* selection's, and getSelection() of an attached annotation is that
\* selection.
C3_RangeMatchesSelection ==
  (result.op = "updateRange" /\ result.outcome = "ok" /\ pending = <<>>) =>
    /\ path = result.sel.path
    /\ startOffset = result.sel.startOffset
    /\ endOffset = result.sel.endOffset
    /\ attached => (getSelection.outcome = "ok" /\ getSelection.value = result.sel)

\* An updateRange that changed path, startOffset and endOffset has been
\* applied to an attached annotation.
C3_AllThreeApplied ==
  /\ result.op = "updateRange"
  /\ result.outcome = "ok"
  /\ Len(result.mutations) = 3
  /\ pending = <<>>
  /\ attached

\* C4 as stated: 0 <= startOffset <= endOffset <= length(text at path) in
\* every reachable state, also between the mutations of one updateRange.
C4_RangeInTextAlways == RangeInText(path, startOffset, endOffset)

\* C4, amended: 0 <= startOffset <= endOffset <= length(text at path)
\* whenever every mutation emitted by updateRange has been applied.
C4_RangeInTextWhenApplied ==
  (pending = <<>>) => RangeInText(path, startOffset, endOffset)

\* An updateRange of several mutations has been applied in full.
C4_SeveralMutationsApplied ==
  /\ result.op = "updateRange"
  /\ result.outcome = "ok"
  /\ Len(result.mutations) >= 2
  /\ pending = <<>>

\* C5: for a selection that is not null, isInsideOf(sel, strict) is true
\* exactly when path equals sel.path and, not strict, startOffset >=
\* sel.startOffset and endOffset <= sel.endOffset, or, strict, startOffset >
\* sel.startOffset and endOffset < sel.endOffset.
C5_InsideIffContained ==
  (result.op = "isInsideOf" /\ result.sel.kind # "null") =>
    (result.boolean <=>
       /\ path = result.sel.path
       /\ \/ /\ ~result.strict
             /\ startOffset >= result.sel.startOffset
             /\ endOffset <= result.sel.endOffset
          \/ /\ result.strict
             /\ startOffset > result.sel.startOffset
             /\ endOffset < result.sel.endOffset)

\* A strict isInsideOf has returned false for a selection on the
\* annotation's path that starts where the annotation starts and ends
\* after it.
C5_StrictTouchingStartIsOutside ==
  /\ result.op = "isInsideOf"
  /\ result.strict
  /\ result.sel.kind = "property"
  /\ result.sel.path = path
  /\ result.sel.startOffset = startOffset
  /\ endOffset < result.sel.endOffset
  /\ result.boolean = FALSE

\* C6: isInsideOf returns false for a null selection, strict or not,
\* whatever path and offsets the selection carries.
C6_NullSelectionIsOutside ==
  (result.op = "isInsideOf" /\ result.sel.kind = "null") => (result.boolean = FALSE)

\* isInsideOf has returned false for a null selection whose path and
\* offsets enclose the annotation.
C6_EnclosingNullSelection ==
  /\ result.op = "isInsideOf"
  /\ result.sel.kind = "null"
  /\ ~result.strict
  /\ result.sel.path = path
  /\ result.sel.startOffset <= startOffset
  /\ endOffset <= result.sel.endOffset
  /\ result.boolean = FALSE

\* C7: getText() of an attached annotation whose offsets lie inside the
\* text at path returns the characters startOffset (inclusive) to endOffset
\* (exclusive) of that text, endOffset - startOffset of them.
C7_TextOfRange ==
  [][(GetTextStep /\ attached /\ RangeInText(path, startOffset, endOffset)) =>
       /\ result'.outcome = "ok"
       /\ Len(result'.string) = endOffset - startOffset
       /\ \A i \in 1..(endOffset - startOffset) :
            result'.string[i] = text[path][startOffset + i]]_vars

\* getText() has returned the second character of the two-character text.
C7_SecondCharacter ==
  /\ result.op = "getText"
  /\ result.outcome = "ok"
  /\ result.string = <<"b">>
  /\ attached
  /\ path = P1Content
  /\ startOffset = 1
  /\ endOffset = 2

\* C8: getText() of a detached annotation returns the empty string, raises
\* no error and leaves path, startOffset and endOffset unchanged.
C8_DetachedTextIsEmpty ==
  [][(GetTextStep /\ ~attached) =>
       /\ result'.outcome = "ok"
       /\ result'.string = <<>>
       /\ UNCHANGED annoVars]_vars

\* getText() has returned the empty string for a detached annotation whose
\* range is not empty.
C8_DetachedNonEmptyRange ==
  /\ result.op = "getText"
  /\ result.outcome = "ok"
  /\ result.string = <<>>
  /\ ~attached
  /\ pending = <<>>
  /\ path = P1Content
  /\ startOffset = 0
  /\ endOffset = 2

\* C9: getCommandState returns the state the manager named
\* 'find-and-replace' reports at the moment of the call, and neither
\* getCommandState nor execute changes a manager of the session.
C9_CommandStateIsCurrent ==
  [][/\ GetCommandStateStep =>
          /\ result'.outcome = "ok"
          /\ result'.state = managers["find-and-replace"]
          /\ UNCHANGED managers
     /\ ExecuteStep => UNCHANGED managers]_vars

\* getCommandState has returned the find-and-replace manager's state, which
\* is neither the state the session started in nor the other manager's.
C9_StateReturned ==
  /\ result.op = "getCommandState"
  /\ result.state = managers["find-and-replace"]
  /\ result.state = MaxManagerState
  /\ managers["spell-check"] # MaxManagerState

\* C10: getText, getSelection, isInsideOf, canSplit, isAnchor, startPath and
\* endPath change neither the annotation's fields nor the text nor the
\* recorded mutations; updateRange changes neither the annotation's fields
\* nor the text, and every mutation it records is addressed to the
\* annotation's own path, startOffset or endOffset.
C10_WritesOnlyThroughTx ==
  [][/\ (GetTextStep \/ GetSelectionStep \/ IsInsideOfStep \/ ConstantQueryStep) =>
          UNCHANGED <<annoVars, text, pending>>
     /\ UpdateRangeStep =>
          /\ UNCHANGED <<annoVars, text>>
          /\ \A i \in DOMAIN pending' :
               /\ pending'[i].node = AnnoId
               /\ pending'[i].field \in AnnotationFields]_vars

\* updateRange has recorded three mutations and none is applied yet: the
\* annotation still holds the path and offsets it had.
C10_ThreeMutationsPending ==
  /\ result.op = "updateRange"
  /\ result.outcome = "ok"
  /\ pending = result.mutations
  /\ Len(pending) = 3
  /\ path # result.sel.path
  /\ startOffset # result.sel.startOffset
  /\ endOffset # result.sel.endOffset

====
